---- MODULE Spec2Model ----
(***************************************************************************)
(* The API-request governor of FinBoard: class IndianStockAPI of           *)
(* src/unnamed/part_001 (request queue, minimum spacing, response cache,   *)
(* in-flight deduplication, rate-limit backoff) and its four public fetch  *)
(* operations.  One governor instance is modelled; time is Date.now() in   *)
(* milliseconds.                                                           *)
(***************************************************************************)
EXTENDS Integers, Sequences, FiniteSets, TLC

(* ------------------------------ bounds --------------------------------- *)
\* number of public-operation calls explored
MaxCalls == 3
\* number of processQueue activations that may be alive at once
MaxLoops == 2
\* number of clearCache calls explored
MaxClears == 1
\* number of instances explored (calls of getIndianApiClient, the first included)
MaxClients == 2
\* number of calls explored where the dispatcher is followed to its end
MaxLiveCalls == 2
\* number of direct fetchWithCache calls explored
MaxKeyCalls == 2
\* the longest list of upstream bars delivered
MaxBars == 3

\* number of calls explored where every payload shape is delivered
MaxShapeCalls == 1
\* Date.now() when the instance is constructed
StartTime == 1000000
\* the smallest clock advance explored
Quantum == 1000

(* ------------------------- program constants --------------------------- *)
CACHE_DURATION == 300000
MIN_REQUEST_INTERVAL == 2000
RETRY_DELAY_FLOOR == 5000
RETRY_DELAY_CEILING == 60000

Min(a, b) == IF a < b THEN a ELSE b

(* ------------------------- JSON values (any) --------------------------- *)
\* A JavaScript value is a record [t, v]: t is its type tag.
JNull == [t |-> "null", v |-> 0]
JUndef == [t |-> "undef", v |-> 0]
JNaN == [t |-> "nan", v |-> 0]
JNum(n) == [t |-> "num", v |-> n]
JStr(s) == [t |-> "str", v |-> s]
JArr(s) == [t |-> "arr", v |-> s]
JObj(r) == [t |-> "obj", v |-> r]

\* the strings of the model that JavaScript's Number() parses as a number
NumericStrings == [s \in {"100", "7"} |-> IF s = "100" THEN 100 ELSE 7]

Nullish(x) == x.t \in {"null", "undef"}

\* JavaScript truthiness
Truthy(x) ==
    CASE x.t = "num" -> x.v # 0
      [] x.t = "str" -> x.v # ""
      [] x.t \in {"arr", "obj"} -> TRUE
      [] OTHER -> FALSE

\* a || b
OrElse(a, b) == IF Truthy(a) THEN a ELSE b

\* o.f on a value that is not null or undefined
Prop(o, f) == IF o.t = "obj" /\ f \in DOMAIN o.v THEN o.v[f] ELSE JUndef

\* o?.f
OptProp(o, f) == IF Nullish(o) THEN JUndef ELSE Prop(o, f)

\* v[i] (0-based) on a value that is not null or undefined
Index(x, i) == IF x.t = "arr" /\ i + 1 \in DOMAIN x.v THEN x.v[i + 1] ELSE JUndef

\* Number(x)
ToNumber(x) ==
    CASE x.t = "num" -> x
      [] x.t = "null" -> JNum(0)
      [] x.t = "str" ->
            IF x.v = "" THEN JNum(0)
            ELSE IF x.v \in DOMAIN NumericStrings THEN JNum(NumericStrings[x.v])
            ELSE JNaN
      [] x.t = "arr" ->
            \* Number([]) is 0, Number([e]) is Number(String(e))
            IF x.v = <<>> THEN JNum(0)
            ELSE IF Len(x.v) = 1 /\ Nullish(x.v[1]) THEN JNum(0)
            ELSE IF Len(x.v) = 1 /\ x.v[1].t = "num" THEN x.v[1]
            ELSE JNaN
      [] OTHER -> JNaN

\* faulty: the array left in its order
ReverseNot(s) == s

\* array.reverse()
Reverse(s) == [i \in 1..Len(s) |-> s[Len(s) + 1 - i]]

\* x.length
LengthOf(x) ==
    CASE x.t = "arr" -> JNum(Len(x.v))
      [] x.t = "str" -> JNum(IF x.v = "" THEN 0 ELSE 1)
      [] OTHER -> Prop(x, "length")

(* --------------------- the public operations' bodies ------------------- *)
\* What the body of a try block did: returned a list, or threw.
Return(list) == [threw |-> FALSE, list |-> list]
Throw == [threw |-> TRUE, list |-> <<>>]

\* getStockData, lines 171-191, on the resolved payload
StockRecords(name, data) ==
    LET cp == OptProp(data, "currentPrice")
        sd == Prop(data, "stockDetailsReusableData")
        price == ToNumber(OrElse(OrElse(Prop(cp, "NSE"), Prop(cp, "BSE")), JNum(0)))
    IN  IF ~Truthy(cp) THEN Return(<<>>)
        ELSE Return(<< [symbol |-> OrElse(OptProp(sd, "tickerId"), JStr(name)),
                        name |-> OrElse(Prop(data, "companyName"), JStr(name)),
                        price |-> price,
                        change |-> ToNumber(OrElse(OptProp(sd, "change"), JNum(0))),
                        changePercent |-> ToNumber(OrElse(Prop(data, "percentChange"), JNum(0))),
                        volume |-> ToNumber(OrElse(OptProp(sd, "volume"), JNum(0))),
                        marketCap |-> JNum(0),
                        high |-> ToNumber(OrElse(Prop(data, "yearHigh"), JNum(0))),
                        low |-> ToNumber(OrElse(Prop(data, "yearLow"), JNum(0))),
                        open |-> price,
                        close |-> price] >>)

\* one card record of getTrendingStocks / getMostActiveStocks
CardRecord(s, symField, nameField, type) ==
    [symbol |-> OrElse(Prop(s, symField), JStr("")),
     name |-> OrElse(Prop(s, nameField), JStr("")),
     value |-> ToNumber(OrElse(Prop(s, "price"), JNum(0))),
     change |-> ToNumber(OrElse(Prop(s, "net_change"), JNum(0))),
     changePercent |-> ToNumber(OrElse(Prop(s, "percent_change"), JNum(0))),
     volume |-> ToNumber(OrElse(Prop(s, "volume"), JNum(0))),
     type |-> type]

\* arr.forEach / arr.map building card records: a property read on a null
\* element, or calling forEach / map on a value that is no array, throws
CardList(arr, symField, nameField, type) ==
    IF arr.t # "arr" THEN Throw
    ELSE IF \E i \in DOMAIN arr.v : Nullish(arr.v[i]) THEN Throw
    ELSE Return([i \in 1..Len(arr.v) |-> CardRecord(arr.v[i], symField, nameField, type)])

\* getTrendingStocks, lines 201-227
TrendingRecords(data) ==
    LET ts == OptProp(data, "trending_stocks")
        tg == OptProp(ts, "top_gainers")
        tl == OptProp(ts, "top_losers")
        g == IF Nullish(tg) THEN Return(<<>>) ELSE CardList(tg, "ticker_id", "company_name", "gainer")
        l == IF Nullish(tl) THEN Return(<<>>) ELSE CardList(tl, "ticker_id", "company_name", "loser")
    IN  IF g.threw \/ l.threw THEN Throw ELSE Return(g.list \o l.list)

\* getMostActiveStocks, lines 240-248
MostActiveRecords(data) ==
    IF Nullish(data) THEN Throw ELSE CardList(data, "ticker", "company", "active")

\* one bar record of getHistoricalData, lines 271-278
BarRecord(v) ==
    [date |-> Index(v, 0),
     open |-> ToNumber(Index(v, 1)),
     high |-> ToNumber(Index(v, 1)),
     low |-> ToNumber(Index(v, 1)),
     close |-> ToNumber(Index(v, 1)),
     volume |-> JNum(0)]

\* getHistoricalData, lines 266-279
HistoricalRecords(data) ==
    LET ds == OptProp(data, "datasets")
        len == IF Nullish(ds) THEN JUndef ELSE LengthOf(ds)
        IsPrice(d) == ~Nullish(d) /\ Prop(d, "metric") = JStr("Price")
        hits == IF ds.t = "arr" THEN {i \in DOMAIN ds.v : IsPrice(ds.v[i])} ELSE {}
        first == IF hits = {} THEN Len(ds.v) + 1
                 ELSE CHOOSE i \in hits : \A j \in hits : i <= j
        priceSet == IF hits = {} THEN JUndef ELSE ds.v[first]
        vals == OptProp(priceSet, "values")
    IN  IF ~Truthy(len) THEN Return(<<>>)
        ELSE IF ds.t # "arr" THEN Throw
        ELSE IF \E j \in 1..(first - 1) : Nullish(ds.v[j]) THEN Throw
        ELSE IF Nullish(vals) THEN Return(<<>>)
        ELSE IF vals.t # "arr" THEN Throw
        ELSE IF \E i \in DOMAIN vals.v : Nullish(vals.v[i]) THEN Throw
        ELSE Return(Reverse([i \in 1..Len(vals.v) |-> BarRecord(vals.v[i])]))

(* ------------------------ requests and responses ----------------------- *)
\* A call of a public operation: op and its (at most two) arguments.
OpCall(op, a, b) == [op |-> op, a |-> a, b |-> b]

\* endpoint and parameters each public operation passes to fetchWithCache;
\* params is the list of name/value pairs in the object's insertion order
RequestOf(oc) ==
    CASE oc.op = "getStockData" ->
            [endpoint |-> "/stock", params |-> << <<"name", oc.a>> >>]
      [] oc.op = "getTrendingStocks" ->
            [endpoint |-> "/trending", params |-> <<>>]
      [] oc.op = "getMostActiveStocks" ->
            [endpoint |-> IF oc.a = "NSE" THEN "/NSE_most_active" ELSE "/BSE_most_active",
             params |-> <<>>]
      [] oc.op = "getHistoricalData" ->
            [endpoint |-> "/historical_data",
             params |-> << <<"stock_name", oc.a>>, <<"period", oc.b>>, <<"filter", "price">> >>]
      \* fetchWithCache called as such, with its own endpoint and params
      [] oc.op = "fetchWithCache" -> [endpoint |-> oc.a, params |-> oc.b]

\* new URLSearchParams(params).toString(): the pairs in the order given
QueryString(params) == params

\* `${endpoint}?${query}`
CacheKey(endpoint, params) == <<endpoint, QueryString(params)>>

KeyOf(oc) == CacheKey(RequestOf(oc).endpoint, RequestOf(oc).params)

\* the calls explored
StockNames == {"TCS"}
Exchanges == {"NSE"}
Periods == {"1yr"}
OpCalls ==
    {OpCall("getStockData", n, "") : n \in StockNames}
    \cup {OpCall("getTrendingStocks", "", "")}
    \cup {OpCall("getMostActiveStocks", e, "") : e \in Exchanges}
    \cup {OpCall("getHistoricalData", n, p) : n \in StockNames, p \in Periods}

\* the orders in which an object with the three parameters of
\* /historical_data can have been built
ParamOrders ==
    LET pairs == {<<"stock_name", "TCS">>, <<"period", "1yr">>, <<"filter", "price">>}
    IN  {ps \in [1..3 -> pairs] : \A i, j \in 1..3 : i # j => ps[i] # ps[j]}

\* fetchWithCache called with each of them
DirectCalls == {OpCall("fetchWithCache", "/historical_data", ps) : ps \in ParamOrders}

AllKeys == {KeyOf(oc) : oc \in OpCalls} \cup {KeyOf(oc) : oc \in DirectCalls}

\* response bodies the provider may send for an endpoint
GoodBody(endpoint) ==
    CASE endpoint = "/stock" ->
            JObj([currentPrice |-> JObj([NSE |-> JNum(100)]),
                  companyName |-> JStr("Tata Consultancy")])
      [] endpoint = "/trending" ->
            JObj([trending_stocks |->
                    JObj([top_gainers |-> JArr(<< JObj([ticker_id |-> JStr("INFY"), price |-> JStr("100")]) >>),
                          top_losers |-> JArr(<< JObj([ticker_id |-> JStr("HDFC"), price |-> JNum(7)]) >>)])])
      [] endpoint = "/historical_data" ->
            JObj([datasets |->
                    JArr(<< JObj([metric |-> JStr("Price"),
                                  values |-> JArr(<< JArr(<<JStr("D2"), JStr("100")>>),
                                                     JArr(<<JStr("D1"), JNum(7)>>) >>)]) >>)])
      [] OTHER -> JArr(<< JObj([ticker |-> JStr("SBIN"), price |-> JNum(7)]) >>)

\* what the transport may deliver for one fetch: a 2xx response with a JSON
\* body, a 2xx response whose body does not parse, a non-2xx response with an
\* error text, or a thrown transport error.  text is the error text (or the
\* thrown error's message) as a list of words.
Response(kind, status, text, body) == [kind |-> kind, status |-> status, text |-> text, body |-> body]
Ok(body) == Response("ok", "200", <<>>, body)
Http429 == Response("http", "429", <<"quota">>, JNull)
Http500 == Response("http", "500", <<"oops">>, JNull)
Http500Ref == Response("http", "500", <<"ref", "429">>, JNull)
BadJson == Response("badjson", "200", <<"Unexpected", "token">>, JNull)
TransportThrow == Response("throw", "", <<"Failed", "to", "fetch">>, JNull)

\* the deliveries explored, per endpoint
Responses(endpoint) ==
    CASE endpoint = "/stock" -> {Ok(GoodBody(endpoint)), Http429, TransportThrow}
      [] endpoint = "/trending" -> {Ok(GoodBody(endpoint)), Ok(JNull), Http500}
      [] endpoint = "/historical_data" -> {Ok(GoodBody(endpoint)), Http429, BadJson}
      [] OTHER -> {Ok(GoodBody(endpoint)), Http500Ref, TransportThrow}

\* payloads that are not of the shape any operation expects
Malformed ==
    {JNull, JStr("oops"), JNum(7), JArr(<<JNull>>),
     JObj([unknown |-> JNum(7)]),
     JObj([currentPrice |-> JNull]),
     JObj([trending_stocks |-> JStr("oops")]),
     JObj([trending_stocks |-> JObj([top_gainers |-> JStr("oops")])]),
     JObj([trending_stocks |-> JObj([top_losers |-> JArr(<<JNull>>)])]),
     JObj([datasets |-> JStr("oops")]),
     JObj([datasets |-> JArr(<<JNull>>)]),
     JObj([datasets |-> JArr(<< JObj([metric |-> JStr("Volume")]) >>)]),
     JObj([datasets |-> JArr(<< JObj([metric |-> JStr("Price"), values |-> JStr("oops")]) >>)]),
     JObj([datasets |-> JArr(<< JObj([metric |-> JStr("Price"), values |-> JArr(<<JNull>>)]) >>)])}

\* a /historical_data payload whose Price dataset has the entries vs
PriceBody(vs) ==
    JObj([datasets |-> JArr(<< JObj([metric |-> JStr("Volume"), values |-> JArr(<<>>)]),
                               JObj([metric |-> JStr("Price"), values |-> JArr(vs)]) >>)])

\* upstream entries [date, price] of three days, and the lists made of them
Bars ==
    {JArr(<<JStr("D1"), JStr("100")>>), JArr(<<JStr("D2"), JNum(7)>>),
     JArr(<<JStr("D3"), JStr("7")>>)}

BarLists == UNION {[1..n -> Bars] : n \in 0..MaxBars}

\* series with a price that is null or no number, and with entries shorter
\* than [date, price]
OddSeries ==
    {<< JArr(<<JStr("D1"), JNull>>) >>,
     << JArr(<<JStr("D1"), JStr("n/a")>>) >>,
     << JArr(<<JStr("D2"), JStr("7")>>), JArr(<<JStr("D1")>>) >>,
     << JArr(<<>>), JArr(<<JStr("D1"), JNum(100)>>) >>}

\* payloads of the expected shape with values that are no numbers, null or
\* missing
OddPayloads ==
    {JObj([currentPrice |-> JObj([NSE |-> JStr("n/a")]), yearHigh |-> JNull]),
     JObj([currentPrice |-> JObj([NSE |-> JNum(7)]), yearLow |-> JStr("n/a")]),
     JObj([trending_stocks |->
            JObj([top_gainers |-> JArr(<< JObj([ticker_id |-> JStr("INFY"),
                                                price |-> JStr("n/a")]) >>)])]),
     JArr(<< JObj([ticker |-> JStr("SBIN"), price |-> JNull, volume |-> JStr("n/a")]) >>)}
    \cup {PriceBody(vs) : vs \in OddSeries}

\* every delivery: each failure, each endpoint's payload, each malformed
\* payload, each list of bars
ShapeResponses ==
    {Http429, Http500, BadJson, TransportThrow}
    \cup {Ok(GoodBody(e)) : e \in {"/stock", "/trending", "/NSE_most_active", "/historical_data"}}
    \cup {Ok(b) : b \in Malformed}
    \cup {Ok(PriceBody(vs)) : vs \in BarLists}
    \cup {Ok(b) : b \in OddPayloads}

\* error.message?.includes('429'), on a message given as a list of words
Includes429(msg) == \E i \in DOMAIN msg : msg[i] = "429"

\* the outcome of a promise
NoData == [id |-> 0, body |-> JNull]
Pending == [st |-> "pending", data |-> NoData, msg |-> <<>>]
Fulfilled(data) == [st |-> "fulfilled", data |-> data, msg |-> <<>>]
Rejected(msg) == [st |-> "rejected", data |-> NoData, msg |-> msg]

(* ---------------------- the public operations' results ----------------- *)
\* a faulty variant of the catch block: it rethrows
CatchRethrow(r) ==
    [st |-> IF r.threw THEN "rejected" ELSE "resolved", list |-> IF r.threw THEN <<>> ELSE r.list]

\* catch { return []; }
Catch(r) == [st |-> "resolved", list |-> IF r.threw THEN <<>> ELSE r.list]

\* the try block: awaiting a rejected fetchWithCache throws
TryBody(oc, res) ==
    IF res.st = "rejected" THEN Throw
    ELSE CASE oc.op = "getStockData" -> StockRecords(oc.a, res.data.body)
           [] oc.op = "getTrendingStocks" -> TrendingRecords(res.data.body)
           [] oc.op = "getMostActiveStocks" -> MostActiveRecords(res.data.body)
           [] oc.op = "getHistoricalData" -> HistoricalRecords(res.data.body)

\* what the public operation's promise becomes once fetchWithCache settled
PublicOutcome(oc, res) ==
    IF res.st = "pending" THEN [st |-> "pending", list |-> <<>>]
    \* fetchWithCache itself: the caller has the promise as it is
    ELSE IF oc.op = "fetchWithCache"
    THEN [st |-> IF res.st = "rejected" THEN "rejected" ELSE "resolved", list |-> <<>>]
    ELSE Catch(TryBody(oc, res))

(* ------------------------------- state --------------------------------- *)
VARIABLES
    now,               \* Date.now()
    cache,             \* key -> [data, timestamp]
    pendingRequests,   \* key -> promise (the id of its queue item)
    requestQueue,      \* ids of the queued items, head first
    isProcessingQueue,
    lastRequestTime,
    rateLimitedUntil,
    retryDelay,
    loops,             \* the activations of processQueue: [pc, wakeAt, item, net]
    items,             \* every promise made by queueRequest, by id: [key, res]
    callers,           \* every call of a public operation, in call order
    nnet,              \* the number of fetch() calls started
    \* history, read by the properties only
    callInfo,          \* per call: what the key, the dispatcher and the cache entry were like
    netCount,          \* per item: the fetch() calls made for it
    dispatchLog,       \* the items shifted from the queue, in order
    dispatchStart,     \* when the last item was shifted and run (-1: never)
    dispatchGap,       \* the time between the last two dispatch starts (-1: fewer than two)
    lastEnd,           \* when the last attempt completed (0: never)
    lastNet,           \* the last fetch() started
    epoch,             \* per key: the fetch completions and clearCache calls so far
    lastStore,         \* per key: the time of the last cache.set (-1: never)
    rl429,             \* the last HTTP 429 failure
    clears,            \* the number of clearCache calls
    lastClear,         \* whether the last step was a clearCache, and the keys cached before it
    atClear,           \* the items queued or in flight at the last clearCache
    netAtClear,        \* the number of fetch() calls started before the last clearCache
    client,            \* the instance in use: its number, the items and fetches made before
                       \* it was created, and the keys its predecessor had cached or registered
    backoffLog         \* the run of consecutive HTTP 429 failures just completed

code == <<cache, pendingRequests, requestQueue, isProcessingQueue, lastRequestTime,
          rateLimitedUntil, retryDelay, loops, items, callers, nnet>>
history == <<callInfo, netCount, dispatchLog, dispatchStart, dispatchGap, lastEnd,
             lastNet, epoch, lastStore, rl429, clears, lastClear, atClear,
             netAtClear, client, backoffLog>>
vars == <<now, code, history>>

\* the instance's state as one record, so that the statements of a handler compose
St ==
    [cache |-> cache, pendingRequests |-> pendingRequests, requestQueue |-> requestQueue,
     isProcessingQueue |-> isProcessingQueue, lastRequestTime |-> lastRequestTime,
     rateLimitedUntil |-> rateLimitedUntil, retryDelay |-> retryDelay, loops |-> loops,
     items |-> items, callers |-> callers, nnet |-> nnet]

Install(s) ==
    /\ cache' = s.cache
    /\ pendingRequests' = s.pendingRequests
    /\ requestQueue' = s.requestQueue
    /\ isProcessingQueue' = s.isProcessingQueue
    /\ lastRequestTime' = s.lastRequestTime
    /\ rateLimitedUntil' = s.rateLimitedUntil
    /\ retryDelay' = s.retryDelay
    /\ loops' = s.loops
    /\ items' = s.items
    /\ callers' = s.callers
    /\ nnet' = s.nnet

EmptyMap == [k \in {} |-> 0]
MapSet(m, k, v) == [x \in (DOMAIN m) \cup {k} |-> IF x = k THEN v ELSE m[x]]
MapDelete(m, k) == [x \in (DOMAIN m) \ {k} |-> m[x]]

IdleLoop == [pc |-> "idle", wakeAt |-> 0, item |-> 0, net |-> 0]
TopLoop == [pc |-> "top", wakeAt |-> 0, item |-> 0, net |-> 0]
No429 == [at |-> -1, until |-> -1, cleared |-> FALSE]
NoNet == [item |-> 0, start |-> -1, rl |-> No429]
NoClear == [on |-> FALSE, keys |-> {}]
FirstClient == [id |-> 1, items |-> 0, nnet |-> 0, had |-> {}]

Init ==
    /\ now = StartTime
    /\ cache = EmptyMap
    /\ pendingRequests = EmptyMap
    /\ requestQueue = <<>>
    /\ isProcessingQueue = FALSE
    /\ lastRequestTime = 0
    /\ rateLimitedUntil = 0
    /\ retryDelay = RETRY_DELAY_FLOOR
    /\ loops = [l \in 1..MaxLoops |-> IdleLoop]
    /\ items = <<>>
    /\ callers = <<>>
    /\ nnet = 0
    /\ callInfo = <<>>
    /\ netCount = <<>>
    /\ dispatchLog = <<>>
    /\ dispatchStart = -1
    /\ dispatchGap = -1
    /\ lastEnd = 0
    /\ lastNet = NoNet
    /\ epoch = [k \in AllKeys |-> 0]
    /\ lastStore = [k \in AllKeys |-> -1]
    /\ rl429 = No429
    /\ clears = 0
    /\ lastClear = NoClear
    /\ atClear = {}
    /\ netAtClear = 0
    /\ client = FirstClient
    /\ backoffLog = <<>>

(* --------------------------- faulty variants ---------------------------- *)
\* Each is one of the governor's operators below with a plausible fault; a
\* property of the governor is expected to fail when the fault is put in.

\* the cache check with its boundary included
CacheFreshInclusive(timestamp, t) == t - timestamp <= CACHE_DURATION

\* no cache lookup at all
CacheValidNever(s, k) == FALSE

\* no lookup of the in-flight registrations
HasPendingNever(s, k) == FALSE

\* processQueue without its re-entrancy guard
ProcessQueueReturnsOnEmpty(s) == s.requestQueue = <<>>

\* pop() in place of shift()
ShiftLast(q) == [item |-> q[Len(q)], rest |-> SubSeq(q, 1, Len(q) - 1)]

\* no spacing between dispatches
SpacingWaitNone(s) == 0

\* the retry delay escalated, not reset, after an item that returned
AfterRequestEscalating(s, l, res) ==
    [s EXCEPT !.retryDelay = Min(s.retryDelay * 2, RETRY_DELAY_CEILING),
              !.lastRequestTime = now, !.loops[l] = TopLoop]

\* only the caller that enqueued the item is told its outcome
SettleItemFirstOnly(s, i, res) ==
    [s EXCEPT
        !.items[i].res = res,
        !.callers = [c \in DOMAIN s.callers |->
                        IF s.callers[c].item = i /\ s.callers[c].how = "enqueue"
                        THEN [s.callers[c] EXCEPT !.res = res,
                                                  !.out = PublicOutcome(s.callers[c].oc, res)]
                        ELSE s.callers[c]]]

(* ------------------------ fetchWithCache, the queue -------------------- *)
\* Date.now() - timestamp < CACHE_DURATION
CacheFresh(timestamp, t) == t - timestamp < CACHE_DURATION

\* cached && Date.now() - cached.timestamp < CACHE_DURATION
CacheValid(s, k) == k \in DOMAIN s.cache /\ CacheFresh(s.cache[k].timestamp, now)

\* const pending = this.pendingRequests.get(cacheKey); if (pending)
HasPending(s, k) == k \in DOMAIN s.pendingRequests

\* resolve(result) / reject(error) of the promise of item i: every caller
\* awaiting it continues with that outcome
SettleItem(s, i, res) ==
    [s EXCEPT
        !.items[i].res = res,
        !.callers = [c \in DOMAIN s.callers |->
                        IF s.callers[c].item = i /\ s.callers[c].res.st = "pending"
                        THEN [s.callers[c] EXCEPT !.res = res,
                                                  !.out = PublicOutcome(s.callers[c].oc, res)]
                        ELSE s.callers[c]]]

\* if (this.isProcessingQueue || this.requestQueue.length === 0) return;
ProcessQueueReturns(s) == s.isProcessingQueue \/ s.requestQueue = <<>>

\* processQueue() up to its loop: a new activation at the top of the loop
ProcessQueue(s) ==
    LET free == {l \in DOMAIN s.loops : s.loops[l].pc = "idle"}
        l == CHOOSE x \in free : \A y \in free : x <= y
    IN  IF ProcessQueueReturns(s) \/ free = {} THEN s
        ELSE [s EXCEPT !.isProcessingQueue = TRUE, !.loops[l] = TopLoop]

\* queueRequest: push the thunk of a new promise, then processQueue()
QueueRequest(s, k) ==
    ProcessQueue([s EXCEPT !.items = Append(@, [key |-> k, res |-> Pending]),
                           !.requestQueue = Append(@, Len(s.items) + 1)])

\* faulty: a lookup that finds an expired entry deletes it
FetchWithCacheEvicting(s0, oc) ==
    LET k == KeyOf(oc)
        s == IF k \in DOMAIN s0.cache /\ ~CacheValid(s0, k)
             THEN [s0 EXCEPT !.cache = MapDelete(@, k)] ELSE s0
        caller(how, i, res) ==
            [oc |-> oc, key |-> k, how |-> how, item |-> i, res |-> res,
             out |-> PublicOutcome(oc, res)]
    IN  IF CacheValid(s, k)
        THEN [s EXCEPT !.callers = Append(@, caller("hit", 0, Fulfilled(s.cache[k].data)))]
        ELSE IF HasPending(s, k)
        THEN [s EXCEPT !.callers = Append(@, caller("join", s.pendingRequests[k],
                                                   s.items[s.pendingRequests[k]].res))]
        ELSE LET q == QueueRequest(s, k)
             IN  [q EXCEPT !.pendingRequests = MapSet(@, k, Len(q.items)),
                           !.callers = Append(@, caller("enqueue", Len(q.items), Pending))]

\* a public operation called: fetchWithCache up to its return, lines 92-164
FetchWithCache(s, oc) ==
    LET k == KeyOf(oc)
        caller(how, i, res) ==
            [oc |-> oc, key |-> k, how |-> how, item |-> i, res |-> res,
             out |-> PublicOutcome(oc, res)]
    IN  IF CacheValid(s, k)
        THEN [s EXCEPT !.callers = Append(@, caller("hit", 0, Fulfilled(s.cache[k].data)))]
        ELSE IF HasPending(s, k)
        THEN [s EXCEPT !.callers = Append(@, caller("join", s.pendingRequests[k],
                                                   s.items[s.pendingRequests[k]].res))]
        ELSE LET q == QueueRequest(s, k)
             IN  [q EXCEPT !.pendingRequests = MapSet(@, k, Len(q.items)),
                           !.callers = Append(@, caller("enqueue", Len(q.items), Pending))]

\* this.requestQueue.shift()
Shift(q) == [item |-> Head(q), rest |-> Tail(q)]

\* faulty: a wrapper that lets the thunk's error through to processQueue
WrapperOutcomeRethrowing(res) == res

\* faulty: processQueue leaves after one item, if in place of while
AfterRequestLeaving(s, l, res) ==
    [s EXCEPT !.retryDelay = RETRY_DELAY_FLOOR,
              !.lastRequestTime = now,
              !.isProcessingQueue = FALSE,
              !.loops[l] = IdleLoop]

\* What awaiting a queue item gives processQueue.  The item is the wrapper
\* queueRequest pushed (lines 76-83): it awaits the thunk, passes the thunk's
\* outcome to resolve or reject of the caller's promise, and itself always
\* returns normally, also when the thunk threw.
WrapperOutcome(res) == Fulfilled(NoData)

\* lines 56-67: after await request() returned or threw
AfterRequest(s, l, res) ==
    LET s1 == IF res.st = "fulfilled"
              THEN [s EXCEPT !.retryDelay = RETRY_DELAY_FLOOR]
              ELSE IF Includes429(res.msg)
              THEN [s EXCEPT !.rateLimitedUntil = now + s.retryDelay,
                             !.retryDelay = Min(s.retryDelay * 2, RETRY_DELAY_CEILING)]
              ELSE s
    IN  [s1 EXCEPT !.lastRequestTime = now, !.loops[l] = TopLoop]

\* faulty: the thunk without its second look at the cache
ShiftAndRunFetching(s, l) ==
    IF s.requestQueue = <<>> THEN [s EXCEPT !.loops[l] = TopLoop]
    ELSE [s EXCEPT !.requestQueue = Shift(s.requestQueue).rest,
                   !.loops[l] = [pc |-> "fetching", wakeAt |-> 0,
                                 item |-> Shift(s.requestQueue).item, net |-> s.nnet + 1],
                   !.nnet = @ + 1]

\* lines 52-55 and the thunk up to its first suspension, lines 112-126
ShiftAndRun(s, l) ==
    IF s.requestQueue = <<>> THEN [s EXCEPT !.loops[l] = TopLoop]
    ELSE LET i == Shift(s.requestQueue).item
             k == s.items[i].key
             s1 == [s EXCEPT !.requestQueue = Shift(s.requestQueue).rest]
         IN  IF CacheValid(s1, k)
             THEN AfterRequest(SettleItem(s1, i, Fulfilled(s1.cache[k].data)), l,
                               WrapperOutcome(Fulfilled(s1.cache[k].data)))
             ELSE [s1 EXCEPT !.loops[l] = [pc |-> "fetching", wakeAt |-> 0, item |-> i,
                                           net |-> s.nnet + 1],
                             !.nnet = @ + 1]

\* MIN_REQUEST_INTERVAL - timeSinceLastRequest, when the loop has to wait (else 0)
SpacingWait(s) ==
    IF now - s.lastRequestTime < MIN_REQUEST_INTERVAL
    THEN MIN_REQUEST_INTERVAL - (now - s.lastRequestTime)
    ELSE 0

\* lines 43-55
AfterRateLimitWait(s, l) ==
    IF SpacingWait(s) > 0
    THEN [s EXCEPT !.loops[l] = [pc |-> "waitSpacing", wakeAt |-> now + SpacingWait(s),
                                 item |-> 0, net |-> 0]]
    ELSE ShiftAndRun(s, l)

\* this.rateLimitedUntil - Date.now(), when the loop has to wait (else 0)
RateLimitWait(s) == IF now < s.rateLimitedUntil THEN s.rateLimitedUntil - now ELSE 0

\* faulty: the loop left without isProcessingQueue being reset
TopOfLoopKeepingFlag(s, l) ==
    IF s.requestQueue = <<>>
    THEN [s EXCEPT !.loops[l] = IdleLoop]
    ELSE IF RateLimitWait(s) > 0
    THEN [s EXCEPT !.loops[l] = [pc |-> "waitRL", wakeAt |-> now + RateLimitWait(s),
                                 item |-> 0, net |-> 0]]
    ELSE AfterRateLimitWait(s, l)

\* the top of the while loop, lines 35-41, and line 71
TopOfLoop(s, l) ==
    IF s.requestQueue = <<>>
    THEN [s EXCEPT !.isProcessingQueue = FALSE, !.loops[l] = IdleLoop]
    ELSE IF RateLimitWait(s) > 0
    THEN [s EXCEPT !.loops[l] = [pc |-> "waitRL", wakeAt |-> now + RateLimitWait(s),
                                 item |-> 0, net |-> 0]]
    ELSE AfterRateLimitWait(s, l)

\* faulty: the body of a non-2xx response cached like a result
ThunkResumeCachingErrors(s, l, resp) ==
    LET i == s.loops[l].item
        k == s.items[i].key
        data == [id |-> s.loops[l].net, body |-> resp.body]
    IN  CASE resp.kind \in {"throw", "badjson"} -> SettleItem(s, i, Rejected(resp.text))
          [] resp.kind = "http" ->
                SettleItem([s EXCEPT !.cache = MapSet(@, k, [data |-> data, timestamp |-> now]),
                                     !.pendingRequests = MapDelete(@, k)], i,
                           Rejected(<<"API request failed:", resp.status, "-">> \o resp.text))
          [] resp.kind = "ok" ->
                SettleItem([s EXCEPT !.cache = MapSet(@, k, [data |-> data, timestamp |-> now]),
                                     !.pendingRequests = MapDelete(@, k)],
                           i, Fulfilled(data))

\* the thunk after its fetch completed, lines 126-158
ThunkResume(s, l, resp) ==
    LET i == s.loops[l].item
        k == s.items[i].key
        data == [id |-> s.loops[l].net, body |-> resp.body]
    IN  CASE resp.kind = "throw" -> SettleItem(s, i, Rejected(resp.text))
          [] resp.kind = "http" ->
                SettleItem([s EXCEPT !.pendingRequests = MapDelete(@, k)], i,
                           Rejected(<<"API request failed:", resp.status, "-">> \o resp.text))
          [] resp.kind = "badjson" -> SettleItem(s, i, Rejected(resp.text))
          [] resp.kind = "ok" ->
                SettleItem([s EXCEPT !.cache = MapSet(@, k, [data |-> data, timestamp |-> now]),
                                     !.pendingRequests = MapDelete(@, k)],
                           i, Fulfilled(data))

\* faulty: a failed item aborts the queue, the items behind it rejected with
\* its error
CompletionAborting(s, l, resp) ==
    LET s1 == ThunkResume(s, l, resp)
        res == s1.items[s.loops[l].item].res
        queued == {s1.requestQueue[x] : x \in DOMAIN s1.requestQueue}
        s2 == IF res.st # "rejected" THEN s1
              ELSE [s1 EXCEPT
                      !.requestQueue = <<>>,
                      !.items = [i \in DOMAIN s1.items |->
                                    IF i \in queued THEN [s1.items[i] EXCEPT !.res = res]
                                    ELSE s1.items[i]],
                      !.callers = [c \in DOMAIN s1.callers |->
                                    IF s1.callers[c].item \in queued
                                    THEN [s1.callers[c] EXCEPT
                                            !.res = res,
                                            !.out = PublicOutcome(s1.callers[c].oc, res)]
                                    ELSE s1.callers[c]]]
    IN  AfterRequest(s2, l, WrapperOutcome(res))

\* the fetch of loop l completed: the thunk, the wrapper, then processQueue's
\* continuation
Completion(s, l, resp) ==
    LET s1 == ThunkResume(s, l, resp)
    IN  AfterRequest(s1, l, WrapperOutcome(s1.items[s.loops[l].item].res))

\* faulty: the queue cleared with the rest
ClearCacheOfDroppingQueue(s) ==
    [s EXCEPT !.cache = EmptyMap,
              !.pendingRequests = EmptyMap,
              !.requestQueue = <<>>,
              !.rateLimitedUntil = 0,
              !.retryDelay = RETRY_DELAY_FLOOR]

\* faulty: the retry delay cleared to 0 with the rest
ClearCacheOfZeroing(s) ==
    [s EXCEPT !.cache = EmptyMap,
              !.pendingRequests = EmptyMap,
              !.rateLimitedUntil = 0,
              !.retryDelay = 0]

\* clearCache, lines 285-292
ClearCacheOf(s) ==
    [s EXCEPT !.cache = EmptyMap,
              !.pendingRequests = EmptyMap,
              !.rateLimitedUntil = 0,
              !.retryDelay = RETRY_DELAY_FLOOR]

\* faulty: the instance made once and kept
NewInstanceReused(s) == s

\* new IndianStockAPI(config): an object with the field initialisers of lines
\* 9-17.  The promises and fetches made so far stay in the logs (items, callers,
\* nnet); the object they belong to is no longer the one in use, and nothing of
\* it is reachable from the new one.
NewInstance(s) ==
    [s EXCEPT !.cache = EmptyMap,
              !.requestQueue = <<>>,
              !.isProcessingQueue = FALSE,
              !.lastRequestTime = 0,
              !.pendingRequests = EmptyMap,
              !.rateLimitedUntil = 0,
              !.retryDelay = RETRY_DELAY_FLOOR,
              !.loops = [l \in DOMAIN s.loops |-> IdleLoop]]

\* getIndianApiClient, lines 301-307
GetIndianApiClientOf(s) == ClearCacheOf(NewInstance(s))

(* ------------------------------- history -------------------------------- *)
\* what the dispatcher is doing
Busy(s) ==
    IF \E l \in DOMAIN s.loops : s.loops[l].pc = "fetching" THEN "fetching"
    ELSE IF \E l \in DOMAIN s.loops : s.loops[l].pc = "waitRL" THEN "waitRL"
    ELSE IF \E l \in DOMAIN s.loops : s.loops[l].pc = "waitSpacing" THEN "waitSpacing"
    ELSE "idle"

\* the state of the cache entry of key k
EntryState(s, k) ==
    IF k \notin DOMAIN s.cache THEN "none"
    ELSE IF now < s.cache[k].timestamp + CACHE_DURATION THEN "fresh"
    ELSE "expired"

\* The history variables after a step of the instance from s0 to s1; ev says
\* what the step was: a call, a fetch completion (with its response), a
\* clearCache, or a step of the dispatcher loop.
Track(s0, s1, ev) ==
    LET inQueue(s) == {s.requestQueue[x] : x \in DOMAIN s.requestQueue}
        shifted == (inQueue(s0) \cap DOMAIN s0.items) \ inQueue(s1)
        started == {l \in DOMAIN s1.loops :
                        s1.loops[l].pc = "fetching" /\ s0.loops[l].pc # "fetching"}
        settled == {i \in DOMAIN s0.items :
                        s0.items[i].res.st = "pending" /\ s1.items[i].res.st # "pending"}
        is429 == ev.kind = "net" /\ ev.resp.kind = "http" /\ ev.resp.status = "429"
    IN  /\ callInfo' = IF ev.kind = "call"
                       THEN Append(callInfo, [epoch |-> epoch[KeyOf(ev.oc)], busy |-> Busy(s0),
                                              afterClear |-> KeyOf(ev.oc) \in lastClear.keys,
                                              since |-> client,
                                              entry |-> EntryState(s0, KeyOf(ev.oc))])
                       ELSE callInfo
        /\ netCount' = [i \in DOMAIN s1.items |->
                            (IF i \in DOMAIN netCount THEN netCount[i] ELSE 0)
                            + Cardinality({l \in started : s1.loops[l].item = i})]
        /\ dispatchLog' = IF shifted = {} THEN dispatchLog
                          ELSE Append(dispatchLog, CHOOSE i \in shifted : TRUE)
        /\ dispatchStart' = IF shifted = {} THEN dispatchStart ELSE now
        /\ dispatchGap' = IF shifted = {} \/ dispatchStart = -1 THEN dispatchGap
                          ELSE now - dispatchStart
        /\ lastEnd' = IF settled = {} THEN lastEnd ELSE now
        /\ lastNet' = IF started = {} THEN lastNet
                      ELSE [item |-> s1.loops[CHOOSE l \in started : TRUE].item,
                            start |-> now, rl |-> rl429]
        /\ epoch' = [k \in DOMAIN epoch |->
                        IF ev.kind \in {"clear", "new"} \/ (ev.kind = "net" /\ ev.key = k)
                        THEN epoch[k] + 1 ELSE epoch[k]]
        /\ lastStore' = [k \in DOMAIN lastStore |->
                            IF k \in DOMAIN s1.cache
                               /\ (k \notin DOMAIN s0.cache \/ s1.cache[k] # s0.cache[k])
                            THEN now ELSE lastStore[k]]
        /\ rl429' = IF is429 THEN [at |-> now, until |-> s1.rateLimitedUntil, cleared |-> FALSE]
                    ELSE IF ev.kind \in {"clear", "new"} THEN [rl429 EXCEPT !.cleared = TRUE]
                    ELSE rl429
        /\ clears' = IF ev.kind = "clear" THEN clears + 1 ELSE clears
        /\ lastClear' = IF ev.kind = "clear" THEN [on |-> TRUE, keys |-> DOMAIN s0.cache]
                        ELSE NoClear
        /\ atClear' = IF ev.kind = "clear"
                       THEN inQueue(s0) \cup {s0.loops[l].item :
                                l \in {x \in DOMAIN s0.loops : s0.loops[x].pc = "fetching"}}
                       ELSE atClear
        /\ netAtClear' = IF ev.kind = "clear" THEN s0.nnet ELSE netAtClear
        /\ client' = IF ev.kind = "new"
                      THEN [id |-> client.id + 1, items |-> Len(s0.items), nnet |-> s0.nnet,
                            had |-> (DOMAIN s0.cache) \cup (DOMAIN s0.pendingRequests)]
                      ELSE client
        /\ backoffLog' = IF is429
                         THEN Append(backoffLog, [before |-> s0.retryDelay,
                                                  window |-> s1.rateLimitedUntil - now,
                                                  next |-> s1.retryDelay])
                         ELSE IF settled # {} \/ ev.kind \in {"clear", "new"} THEN <<>>
                         ELSE backoffLog

Event(kind) == [kind |-> kind]

(* ------------------------------- actions -------------------------------- *)
\* A loop at the top of its while statement runs on without suspension:
\* nothing else happens before it has decided.
Urgent == \E l \in DOMAIN loops : loops[l].pc = "top"

\* a public operation is called
CallOp(oc, max) ==
    /\ ~Urgent
    /\ Len(callers) < max
    /\ LET s1 == FetchWithCache(St, oc)
       IN  Install(s1) /\ Track(St, s1, [kind |-> "call", oc |-> oc])
    /\ UNCHANGED now

GetStockData(name) == CallOp(OpCall("getStockData", name, ""), MaxCalls)

GetTrendingStocks == CallOp(OpCall("getTrendingStocks", "", ""), MaxCalls)

GetMostActiveStocks(exchange) == CallOp(OpCall("getMostActiveStocks", exchange, ""), MaxCalls)

GetHistoricalData(symbol, period) == CallOp(OpCall("getHistoricalData", symbol, period), MaxCalls)

\* fetchWithCache called with the parameters in the order given
FetchWithCacheCall(endpoint, params) ==
    CallOp(OpCall("fetchWithCache", endpoint, params), MaxKeyCalls)

ClearCache ==
    /\ ~Urgent
    /\ clears < MaxClears
    /\ LET s1 == ClearCacheOf(St)
       IN  Install(s1) /\ Track(St, s1, Event("clear"))
    /\ UNCHANGED now

\* the application asks for the client
GetIndianApiClient ==
    /\ ~Urgent
    /\ client.id < MaxClients
    /\ LET s1 == GetIndianApiClientOf(St)
       IN  Install(s1) /\ Track(St, s1, Event("new"))
    /\ UNCHANGED now

\* the while loop of processQueue continues
LoopTop(l) ==
    /\ loops[l].pc = "top"
    /\ LET s1 == TopOfLoop(St, l)
       IN  Install(s1) /\ Track(St, s1, Event("loop"))
    /\ UNCHANGED now

\* a timer of processQueue fires: the one of line 40 (rate-limit wait) or the
\* one of lines 47-49 (spacing wait)
Wake(l) ==
    /\ ~Urgent
    /\ loops[l].pc \in {"waitRL", "waitSpacing"}
    /\ now >= loops[l].wakeAt
    /\ LET s1 == IF loops[l].pc = "waitRL" THEN AfterRateLimitWait(St, l)
                 ELSE ShiftAndRun(St, l)
       IN  Install(s1) /\ Track(St, s1, Event("loop"))
    /\ UNCHANGED now

\* the fetch of the running item completes; the thunk, the promise's
\* reactions and processQueue's continuation run as one chain of microtasks
Deliver(l, resp) ==
    /\ ~Urgent
    /\ loops[l].pc = "fetching"
    /\ LET s1 == Completion(St, l, resp)
       IN  Install(s1)
           /\ Track(St, s1, [kind |-> "net", resp |-> resp, key |-> items[loops[l].item].key])
    /\ UNCHANGED now

NetComplete(l, resp) ==
    /\ loops[l].pc = "fetching"
    /\ resp \in Responses(items[loops[l].item].key[1])
    /\ Deliver(l, resp)

\* the same with any of the payload shapes delivered
NetCompleteShape(l, resp) ==
    /\ resp \in ShapeResponses
    /\ Deliver(l, resp)

\* the timers that are due
TimerDue == \E l \in DOMAIN loops : loops[l].pc \in {"waitRL", "waitSpacing"} /\ now >= loops[l].wakeAt

\* the times a timer is due, the backoff window ends, and a time inside the
\* spacing interval
TimerTargets ==
    {loops[l].wakeAt : l \in {x \in DOMAIN loops : loops[x].pc \in {"waitRL", "waitSpacing"}}}
    \cup {rateLimitedUntil, lastRequestTime + Quantum}

\* just before a cache entry expires, and when it does
ExpiryTargets ==
    {cache[k].timestamp + CACHE_DURATION : k \in DOMAIN cache}
    \cup {cache[k].timestamp + CACHE_DURATION - Quantum : k \in DOMAIN cache}

\* time passes; a due timer fires before the clock moves on
TickTo(targets) ==
    /\ ~Urgent
    /\ ~TimerDue
    /\ \E t \in targets : t > now /\ now' = t
    /\ UNCHANGED <<code, history>>

Tick == TickTo(TimerTargets)

TickExpiry == TickTo(TimerTargets \cup ExpiryTargets)

AllResponses == UNION {Responses(k[1]) : k \in AllKeys}

Next ==
    \/ \E n \in StockNames : GetStockData(n)
    \/ GetTrendingStocks
    \/ \E e \in Exchanges : GetMostActiveStocks(e)
    \/ \E n \in StockNames, p \in Periods : GetHistoricalData(n, p)
    \/ ClearCache
    \/ \E l \in DOMAIN loops : LoopTop(l)
    \/ \E l \in DOMAIN loops : Wake(l)
    \/ \E l \in DOMAIN loops, resp \in AllResponses : NetComplete(l, resp)
    \/ Tick

Spec == Init /\ [][Next]_vars

\* the dispatcher's own steps
Dispatcher ==
    \/ \E l \in DOMAIN loops : LoopTop(l)
    \/ \E l \in DOMAIN loops : Wake(l)
    \/ \E l \in DOMAIN loops, resp \in AllResponses : NetComplete(l, resp)

\* two of the operations, over a time long enough for cache entries to expire
NextExpiry ==
    \/ \E n \in StockNames : GetStockData(n)
    \/ GetTrendingStocks
    \/ ClearCache
    \/ Dispatcher
    \/ TickExpiry

SpecExpiry == Init /\ [][NextExpiry]_vars

\* two of the operations, with the client asked for again in between
NextClient ==
    \/ \E n \in StockNames : GetStockData(n)
    \/ GetTrendingStocks
    \/ GetIndianApiClient
    \/ Dispatcher
    \/ Tick

SpecClient == Init /\ [][NextClient]_vars

\* two of the operations and clearCache, where every fetch completes and
\* every timer fires: the event loop runs a continuation that is ready, the
\* clock moves on to the next timer, and the transport ends every fetch with a
\* response or an error
NextLive ==
    \/ \E n \in StockNames : CallOp(OpCall("getStockData", n, ""), MaxLiveCalls)
    \/ CallOp(OpCall("getTrendingStocks", "", ""), MaxLiveCalls)
    \/ ClearCache
    \/ Dispatcher
    \/ Tick

SpecLive == Init /\ [][NextLive]_vars /\ WF_vars(Dispatcher) /\ WF_vars(Tick)

\* fetchWithCache called with the same parameters in every order
NextKeys ==
    \/ \E ps \in ParamOrders : FetchWithCacheCall("/historical_data", ps)
    \/ Dispatcher
    \/ Tick

SpecKeys == Init /\ [][NextKeys]_vars

\* each operation called, with every delivery
NextShapes ==
    \/ \E oc \in OpCalls : CallOp(oc, MaxShapeCalls)
    \/ \E l \in DOMAIN loops : LoopTop(l)
    \/ \E l \in DOMAIN loops, resp \in ShapeResponses : NetCompleteShape(l, resp)

SpecShapes == Init /\ [][NextShapes]_vars

(* ------------------------------ properties ------------------------------ *)
\* a step in which a public operation is called, and the call it records
CallStep == Len(callers') = Len(callers) + 1
NewCaller == callers'[Len(callers')]

\* C1 (dedup): the calls of one key made before any fetch for that key has
\* completed, with no clearCache before them, all await one and the same queue
\* item; one network call is made for it (never a second one, and exactly one
\* once it has settled), and all of them receive the same outcome.
C1_Dedup ==
    \A c1, c2 \in DOMAIN callers :
        (/\ c1 < c2
         /\ callers[c1].key = callers[c2].key
         /\ callInfo[c1].epoch = 0
         /\ callInfo[c2].epoch = 0)
        => /\ callers[c1].item # 0
           /\ callers[c1].item = callers[c2].item
           /\ netCount[callers[c1].item] <= 1
           /\ (callers[c1].res.st # "pending" => netCount[callers[c1].item] = 1)
           /\ callers[c1].res = callers[c2].res
           /\ callers[c1].out = callers[c2].out
           /\ Cardinality({i \in DOMAIN items : items[i].key = callers[c1].key
                                                /\ i <= callers[c2].item}) = 1

\* three concurrent calls of one key have received the payload of one network call
C1_Witness ==
    /\ Len(callers) = 3
    /\ \A c \in DOMAIN callers :
        /\ callers[c].key = callers[1].key
        /\ callInfo[c].epoch = 0
        /\ callers[c].res.st = "fulfilled"
        /\ callers[c].item = 1
    /\ netCount[1] = 1
    /\ nnet = 1

\* C2 as stated (backoff escalation): a dispatched item failing with HTTP 429 at time t
\* sets rateLimitedUntil = t + retryDelay (the delay before the failure) and
\* then retryDelay = min(2 * retryDelay, 60000); so the k-th of a run of
\* consecutive 429 failures that starts at the 5000 floor has the window
\* min(5000 * 2^(k-1), 60000): 5000, 10000, 20000, 40000, 60000, 60000, ...
C2_BackoffEscalation ==
    \A i \in DOMAIN backoffLog :
        /\ backoffLog[i].window = backoffLog[i].before
        /\ backoffLog[i].next = Min(2 * backoffLog[i].before, RETRY_DELAY_CEILING)
        /\ (i > 1 => backoffLog[i].before = backoffLog[i - 1].next)
        /\ (backoffLog[1].before = RETRY_DELAY_FLOOR
                => backoffLog[i].window = Min(RETRY_DELAY_FLOOR * 2^(i - 1), RETRY_DELAY_CEILING))
        /\ (i = Len(backoffLog) /\ rl429.at = now /\ ~rl429.cleared
                => /\ rateLimitedUntil = rl429.at + backoffLog[i].before
                   /\ retryDelay = backoffLog[i].next)

\* C3 as stated (backoff window): after a network call failed with HTTP 429 at
\* time t, no network call starts before t + 5000.
C3_NoCallInWindow ==
    (lastNet.start >= 0 /\ lastNet.rl.at >= 0)
        => lastNet.start >= lastNet.rl.at + RETRY_DELAY_FLOOR

\* C4 as stated: once the fetch made for a queue item has completed, whatever
\* the outcome, pendingRequests no longer holds that item's promise.
C4_RegistrationRemoved ==
    \A k \in DOMAIN pendingRequests :
        ~(/\ netCount[pendingRequests[k]] > 0
          /\ items[pendingRequests[k]].res.st # "pending")

\* C5 (one in flight): at most one fetch is in flight, and an item is shifted
\* from the queue only when every item shifted before it has settled, whatever
\* the calls of the public operations and of clearCache.
C5_OneInFlight ==
    /\ Cardinality({l \in DOMAIN loops : loops[l].pc = "fetching"}) <= 1
    /\ Cardinality({i \in DOMAIN items : netCount[i] > 0 /\ items[i].res.st = "pending"}) <= 1
    /\ \A x \in DOMAIN dispatchLog :
            x < Len(dispatchLog) => items[dispatchLog[x]].res.st # "pending"

\* after a clearCache, the second item is in flight, the first has settled and
\* a third waits in the queue
C5_Witness ==
    /\ clears = 1
    /\ Len(dispatchLog) = 2
    /\ \E l \in DOMAIN loops : loops[l].pc = "fetching" /\ loops[l].item = dispatchLog[2]
    /\ items[dispatchLog[1]].res.st # "pending"
    /\ requestQueue # <<>>

\* C6 (FIFO): the items are dispatched in the order they were enqueued: the
\* x-th item dispatched is the x-th item enqueued, and the queue holds the
\* others in enqueue order.
C6_Fifo ==
    /\ \A x \in DOMAIN dispatchLog : dispatchLog[x] = x
    /\ requestQueue = [x \in 1..(Len(items) - Len(dispatchLog)) |-> Len(dispatchLog) + x]

\* three items of distinct keys, the first rejected with a 429 while the others
\* waited, all dispatched
C6_Witness ==
    /\ dispatchLog = <<1, 2, 3>>
    /\ Cardinality({items[i].key : i \in 1..3}) = 3
    /\ items[1].res.st = "rejected"
    /\ rl429.at >= 0
    /\ netCount = <<1, 1, 1>>

\* C7 (minimum spacing): two successive dispatches start at least
\* MIN_REQUEST_INTERVAL apart, and lastRequestTime is the time the last
\* attempt completed, whatever its outcome.
C7_MinSpacing ==
    /\ (dispatchGap # -1 => dispatchGap >= MIN_REQUEST_INTERVAL)
    /\ lastRequestTime = lastEnd

\* an item dispatched exactly MIN_REQUEST_INTERVAL after a failed attempt
C7_Witness ==
    /\ Len(dispatchLog) >= 2
    /\ items[dispatchLog[Len(dispatchLog) - 1]].res.st = "rejected"
    /\ dispatchGap = MIN_REQUEST_INTERVAL
    /\ dispatchStart = lastRequestTime + MIN_REQUEST_INTERVAL
    /\ dispatchStart = now

\* C8 as stated (cache validity window): a request for a key whose response was
\* last stored at time T is answered from the cache with no network call when
\* made before T + CACHE_DURATION, and is a miss that enqueues a new network
\* call when made at or after T + CACHE_DURATION.
C8_WindowFromStore ==
    [][CallStep =>
        LET k == NewCaller.key
        IN  lastStore[k] >= 0 =>
                IF now < lastStore[k] + CACHE_DURATION
                THEN NewCaller.item = 0 /\ NewCaller.res.st = "fulfilled" /\ nnet' = nnet
                ELSE Len(items') = Len(items) + 1 /\ NewCaller.item = Len(items')]_vars

\* C8, amended: while the entry stored at time T for a key is in the cache, a
\* request for the key made before T + CACHE_DURATION is answered with the
\* entry's payload, with no network call and nothing queued; a request made at
\* or after T + CACHE_DURATION is a miss: it is queued for a new network call,
\* or joins the request still registered for the key.
C8_WindowWhileStored ==
    [][CallStep =>
        LET k == NewCaller.key
        IN  k \in DOMAIN cache =>
                IF now < cache[k].timestamp + CACHE_DURATION
                THEN /\ NewCaller.item = 0
                     /\ NewCaller.res = Fulfilled(cache[k].data)
                     /\ UNCHANGED <<nnet, requestQueue, items, loops, pendingRequests>>
                ELSE IF k \in DOMAIN pendingRequests
                THEN /\ NewCaller.item = pendingRequests[k]
                     /\ UNCHANGED <<nnet, requestQueue, items>>
                ELSE /\ Len(items') = Len(items) + 1
                     /\ NewCaller.item = Len(items')
                     /\ NewCaller.res.st = "pending"
                     /\ requestQueue' = Append(requestQueue, Len(items'))
                     /\ pendingRequests'[k] = Len(items')]_vars

\* a key fetched, then answered from the cache, then requested at or after its
\* expiry and fetched again
C8_Witness ==
    \E c1, c2 \in DOMAIN callers :
        /\ callers[c1].key = callers[c2].key
        /\ callInfo[c1].entry = "fresh"
        /\ callers[c1].item = 0
        /\ callInfo[c2].entry = "expired"
        /\ callers[c2].how = "enqueue"
        /\ netCount[callers[c2].item] = 1
        /\ callers[c2].res.st = "fulfilled"

\* C9 (cache hit): a call whose key has an unexpired cache entry is answered at
\* once with the entry's payload; the queue, pendingRequests, the network
\* calls, the dispatcher and every other field are left as they were.
C9_HitAddsNothing ==
    [][(CallStep /\ NewCaller.key \in DOMAIN cache
                 /\ now - cache[NewCaller.key].timestamp < CACHE_DURATION)
        => /\ NewCaller.res = Fulfilled(cache[NewCaller.key].data)
           /\ NewCaller.out.st = "resolved"
           /\ NewCaller.item = 0
           /\ UNCHANGED <<requestQueue, pendingRequests, nnet, loops, items, cache,
                          isProcessingQueue, lastRequestTime, rateLimitedUntil, retryDelay>>]_vars

\* a call answered from the cache while another key's fetch is in flight
C9_Witness ==
    \E c \in DOMAIN callers :
        /\ callers[c].how = "hit"
        /\ callers[c].out.st = "resolved"
        /\ callers[c].out.list # <<>>
        /\ callInfo[c].busy = "fetching"
        /\ \E l \in DOMAIN loops : loops[l].pc = "fetching"

\* C10 (graceful degradation): a public operation never rejects; it settles
\* when its fetchWithCache settles, and resolves to the empty list when
\* fetchWithCache rejected (transport throw, unparsable body, non-2xx status,
\* 429) and when the payload is of none of the expected shapes.
C10_NeverRejects ==
    \A c \in DOMAIN callers :
        /\ callers[c].out.st \in {"pending", "resolved"}
        /\ (callers[c].out.st = "pending" <=> callers[c].res.st = "pending")
        /\ (callers[c].res.st = "rejected" => callers[c].out.list = <<>>)
        /\ (callers[c].res.st = "fulfilled" /\ callers[c].res.data.body \in Malformed
                => callers[c].out.list = <<>>)

\* getMostActiveStocks resolved to the empty list on a payload whose map() throws
C10_Witness ==
    \E c \in DOMAIN callers :
        /\ callers[c].oc.op = "getMostActiveStocks"
        /\ callers[c].res.st = "fulfilled"
        /\ callers[c].res.data.body = JObj([trending_stocks |-> JStr("oops")])
        /\ TryBody(callers[c].oc, callers[c].res).threw
        /\ callers[c].out = [st |-> "resolved", list |-> <<>>]

\* C11 as stated (clearCache): right after clearCache the instance has no cache
\* entries and no in-flight registrations, rateLimitedUntil is 0 and retryDelay
\* is 5000; a request made right then for a key that was cached is a miss, is
\* queued, and a network call is made for it (it is not answered without one).
C11_ClearThenRefetch ==
    /\ lastClear.on => /\ cache = EmptyMap
                       /\ pendingRequests = EmptyMap
                       /\ rateLimitedUntil = 0
                       /\ retryDelay = RETRY_DELAY_FLOOR
    /\ \A c \in DOMAIN callers :
            callInfo[c].afterClear
                => /\ callers[c].how = "enqueue"
                   /\ (callers[c].res.st # "pending" => netCount[callers[c].item] = 1)

\* C12 (backoff reset): in any step in which a queue item completes
\* successfully (its promise goes from pending to fulfilled), retryDelay is at
\* its floor, 5000, afterwards, whatever it was before.
C12_BackoffReset ==
    [][(\E i \in DOMAIN items : /\ items[i].res.st = "pending"
                                /\ items'[i].res.st = "fulfilled")
            => retryDelay' = RETRY_DELAY_FLOOR]_vars

\* an item completed successfully after an earlier item had failed with HTTP
\* 429, no clearCache in between, and retryDelay is 5000
C12_Witness ==
    /\ clears = 0
    /\ retryDelay = RETRY_DELAY_FLOOR
    /\ lastEnd = now
    /\ \E i, j \in DOMAIN items :
            /\ i < j
            /\ items[i].res.st = "rejected" /\ Includes429(items[i].res.msg)
            /\ items[j].res.st = "fulfilled" /\ netCount[j] = 1
            /\ dispatchLog[Len(dispatchLog)] = j

\* the items waiting in the queue, and the items whose fetch is in flight
Queued == {requestQueue[x] : x \in DOMAIN requestQueue}
InFlight == {loops[l].item : l \in {x \in DOMAIN loops : loops[x].pc = "fetching"}}

\* C13 (failure isolation): a failed item neither stops the dispatcher nor
\* touches another item.  While items are queued an activation of processQueue
\* is running; every unsettled item is still queued or in flight; an item is
\* settled only in the step in which its own fetch completes or in which it is
\* itself shifted from the queue (a step in which one item fails settles no
\* other item); and every caller of an item has that item's result.
C13_FailureIsolation ==
    /\ [](requestQueue # <<>> =>
            isProcessingQueue /\ \E l \in DOMAIN loops : loops[l].pc # "idle")
    /\ [](\A i \in DOMAIN items : items[i].res.st = "pending" => i \in Queued \cup InFlight)
    /\ [](\A c \in DOMAIN callers :
            callers[c].item # 0 => callers[c].res = items[callers[c].item].res)
    /\ [][\A i \in DOMAIN items :
            items[i].res.st = "pending" /\ items'[i].res.st # "pending"
                => \/ i \in InFlight
                   \/ /\ requestQueue # <<>> /\ i = Head(requestQueue)
                      /\ items'[i].res.st = "fulfilled"]_vars

\* the first item failed while the second was waiting in the queue behind it;
\* the second was then fetched, and its caller has its data
C13_Witness ==
    /\ clears = 0
    /\ Len(items) >= 2
    /\ items[1].res.st = "rejected"
    /\ items[2].res.st = "fulfilled" /\ netCount[2] = 1
    /\ \E c \in DOMAIN callers :
            /\ callers[c].item = 2 /\ callers[c].how = "enqueue"
            /\ callInfo[c].busy = "fetching"
            /\ callers[c].res = items[2].res
            /\ callers[c].out.st = "resolved" /\ callers[c].out.list # <<>>

\* C14 (failure fan-out): once the promise of an item is rejected, every
\* caller that shares the item (the one that enqueued it and those that
\* joined it) has that same rejection, and its public operation has resolved
\* to the empty list; none is pending, none has a value; and at most one
\* network call was made for the item.
C14_FailureFanOut ==
    \A i \in DOMAIN items :
        items[i].res.st = "rejected"
            => /\ netCount[i] <= 1
               /\ \A c \in DOMAIN callers :
                      callers[c].item = i
                          => /\ callers[c].res = items[i].res
                             /\ callers[c].out = [st |-> "resolved", list |-> <<>>]

\* two callers shared one network call (the second joined it while it was in
\* flight), which failed with HTTP 429
C14_Witness ==
    \E i \in DOMAIN items, c, d \in DOMAIN callers :
        /\ items[i].res.st = "rejected" /\ Includes429(items[i].res.msg)
        /\ netCount[i] = 1
        /\ c < d
        /\ callers[c].item = i /\ callers[c].how = "enqueue"
        /\ callers[d].item = i /\ callers[d].how = "join"
        /\ callInfo[d].busy = "fetching"
        /\ callers[d].res.st = "rejected"

\* C15 (historical ordering): when the payload's Price dataset has the entries
\* vs, newest first, getHistoricalData resolves to as many bar records in the
\* reverse order: the i-th record is built from the entry at n+1-i, so the
\* dates D3, D2, D1 come back as D1, D2, D3.
C15_HistoricalOrder ==
    \A c \in DOMAIN callers :
        \A vs \in BarLists :
            /\ callers[c].oc.op = "getHistoricalData"
            /\ callers[c].res.st = "fulfilled"
            /\ callers[c].res.data.body = PriceBody(vs)
            => /\ callers[c].out.st = "resolved"
               /\ Len(callers[c].out.list) = Len(vs)
               /\ \A i \in 1..Len(vs) :
                      /\ callers[c].out.list[i] = BarRecord(vs[Len(vs) + 1 - i])
                      /\ callers[c].out.list[i].date = vs[Len(vs) + 1 - i].v[1]

\* the entries of D3, D2, D1 were delivered in that order and the records of
\* D1, D2, D3 returned
C15_Witness ==
    \E c \in DOMAIN callers :
        /\ callers[c].oc.op = "getHistoricalData"
        /\ callers[c].res.st = "fulfilled"
        /\ callers[c].res.data.body =
                PriceBody(<< JArr(<<JStr("D3"), JStr("7")>>), JArr(<<JStr("D2"), JNum(7)>>),
                             JArr(<<JStr("D1"), JStr("100")>>) >>)
        /\ Len(callers[c].out.list) = 3
        /\ callers[c].out.list[1].date = JStr("D1") /\ callers[c].out.list[1].close = JNum(100)
        /\ callers[c].out.list[2].date = JStr("D2")
        /\ callers[c].out.list[3].date = JStr("D3") /\ callers[c].out.list[3].close = JNum(7)

\* C16 (instance replacement): the instance getIndianApiClient returns has an
\* empty cache, registry and queue, rateLimitedUntil 0 and retryDelay 5000 until
\* it is first called; and a caller of an instance is served only by promises
\* and responses made after that instance was created, never by what an
\* earlier instance had cached or pending.
C16_InstanceFresh ==
    /\ (\A c \in DOMAIN callers : callInfo[c].since.id # client.id)
            => /\ cache = EmptyMap
               /\ pendingRequests = EmptyMap
               /\ requestQueue = <<>>
               /\ rateLimitedUntil = 0
               /\ retryDelay = RETRY_DELAY_FLOOR
    /\ \A c \in DOMAIN callers :
            /\ callers[c].item # 0 => callers[c].item > callInfo[c].since.items
            /\ callers[c].res.st = "fulfilled"
                    => callers[c].res.data.id > callInfo[c].since.nnet

\* a caller of the second instance asked for a key the first instance had
\* cached or registered; a request was queued for it and fetched anew
C16_Witness ==
    \E c \in DOMAIN callers :
        /\ callInfo[c].since.id = 2
        /\ callers[c].key \in callInfo[c].since.had
        /\ callInfo[c].since.nnet >= 1
        /\ callers[c].how = "enqueue"
        /\ callers[c].res.st = "fulfilled"
        /\ callers[c].res.data.id > callInfo[c].since.nnet

\* C17 as stated (one outstanding request per key): in every reachable state,
\* clearCache calls included, each cache key has at most one request that is
\* queued or in flight.
C17_OneOutstandingPerKey ==
    \A k \in AllKeys :
        Cardinality({i \in Queued \cup InFlight : items[i].key = k}) <= 1

\* C18 (the cache is written on success only): a step that creates or changes
\* the cache entry of a key is the step in which a fetch made for that key
\* completes with a parsed 2xx response; the entry holds that response and the
\* time of the step.  A step in which a fetch fails leaves the cache as it was.
C18_WrittenOnSuccessOnly ==
    [][ /\ \A k \in DOMAIN cache' :
              (k \notin DOMAIN cache \/ cache'[k] # cache[k])
                  => \E l \in DOMAIN loops :
                          /\ loops[l].pc = "fetching"
                          /\ items[loops[l].item].key = k
                          /\ items'[loops[l].item].res = Fulfilled(cache'[k].data)
                          /\ cache'[k].data.id = loops[l].net
                          /\ cache'[k].timestamp = now'
        /\ (\E i \in InFlight : items'[i].res.st = "rejected") => cache' = cache ]_vars

\* three fetches of one key, no clearCache: the first stored an entry, the
\* second failed and left it, the third overwrote it
C18_Witness ==
    /\ clears = 0
    /\ Len(items) = 3
    /\ items[1].key = items[2].key /\ items[2].key = items[3].key
    /\ netCount = <<1, 1, 1>>
    /\ items[1].res.st = "fulfilled"
    /\ items[2].res.st = "rejected"
    /\ items[3].res.st = "fulfilled"
    /\ cache[items[3].key] = [data |-> items[3].res.data, timestamp |-> now]

\* C19 (lazy expiry): a call that finds an expired entry is not answered from
\* it; no call changes the cache; a key leaves the cache only in a clearCache
\* step; and an entry that stays is changed only in the step in which a fetch
\* made for its key completes successfully.
C19_LazyExpiry ==
    /\ [](\A c \in DOMAIN callers :
            callInfo[c].entry = "expired" => callers[c].how # "hit")
    /\ [][ /\ CallStep => cache' = cache
           /\ (\E k \in DOMAIN cache : k \notin DOMAIN cache') => clears' = clears + 1
           /\ \A k \in (DOMAIN cache) \cap (DOMAIN cache') :
                  cache'[k] # cache[k]
                      => \E i \in InFlight : /\ items[i].key = k
                                             /\ items'[i].res.st = "fulfilled" ]_vars

\* a call found an expired entry and was queued; its request is not settled
\* yet and the expired entry is still in the cache
C19_Witness ==
    \E c \in DOMAIN callers :
        /\ callInfo[c].entry = "expired"
        /\ callers[c].how = "enqueue"
        /\ callers[c].res.st = "pending"
        /\ callers[c].key \in DOMAIN cache
        /\ now >= cache[callers[c].key].timestamp + CACHE_DURATION

\* the name/value pairs of a parameter list, whatever their order
PairSet(params) == {params[i] : i \in DOMAIN params}

IsHttp429(msg) == Len(msg) >= 2 /\ msg[1] = "API request failed:" /\ msg[2] = "429"

\* C21 (failure without a rate-limit signal): in the step in which the fetch
\* of an item fails otherwise than with HTTP 429, the item's callers get the
\* error (their fetchWithCache promise is rejected with it), and
\* rateLimitedUntil and retryDelay are the same after the step as before.
C21_OtherFailureKeepsBackoff ==
    [][\A i \in InFlight :
            items'[i].res.st = "rejected" /\ ~IsHttp429(items'[i].res.msg)
                => /\ rateLimitedUntil' = rateLimitedUntil
                   /\ retryDelay' = retryDelay
                   /\ \A c \in DOMAIN callers :
                          callers[c].item = i /\ callers[c].res.st = "pending"
                              => callers'[c].res = items'[i].res]_vars

\* a fetch answered with HTTP 500 whose error text holds "429" has failed, its
\* caller has the error, and the backoff state is the initial one
C21_Witness ==
    \E i \in DOMAIN items, c \in DOMAIN callers :
        /\ items[i].res.st = "rejected"
        /\ ~IsHttp429(items[i].res.msg)
        /\ Includes429(items[i].res.msg)
        /\ netCount[i] = 1
        /\ lastEnd = now
        /\ dispatchLog[Len(dispatchLog)] = i
        /\ callers[c].item = i
        /\ callers[c].res = items[i].res
        /\ rateLimitedUntil = 0
        /\ retryDelay = RETRY_DELAY_FLOOR

\* the retry delays the doubling of line 63 can give from the floor
RetryDelays == {5000, 10000, 20000, 40000, 60000}

\* C22 (backoff bounds): in every state retryDelay is at least 5000 and at
\* most 60000, and rateLimitedUntil is 0 or the time of the last HTTP 429
\* failure plus one of the retry delays within those bounds.
C22_BackoffBounds ==
    /\ RETRY_DELAY_FLOOR <= retryDelay
    /\ retryDelay <= RETRY_DELAY_CEILING
    /\ \/ rateLimitedUntil = 0
       \/ /\ rl429.at >= 0
          /\ rateLimitedUntil - rl429.at \in RetryDelays

\* after an HTTP 429 failure, then a clearCache, then another HTTP 429 failure
C22_Witness ==
    /\ clears = 1
    /\ rl429.at = now /\ ~rl429.cleared
    /\ \E i, j \in DOMAIN items :
            /\ i < j
            /\ IsHttp429(items[i].res.msg)
            /\ IsHttp429(items[j].res.msg)
    /\ retryDelay \in RetryDelays

\* the numeric fields of the records the public operations return
NumericFields ==
    {"price", "value", "change", "changePercent", "volume", "marketCap",
     "high", "low", "open", "close"}

\* C23 as stated (numeric normalization): every numeric field of every record
\* a public operation returns is a number, never NaN (0 when the upstream
\* value is null, undefined or not numeric).
C23_NumbersNormalized ==
    \A c \in DOMAIN callers :
        \A i \in DOMAIN callers[c].out.list :
            \A f \in NumericFields \cap DOMAIN callers[c].out.list[i] :
                callers[c].out.list[i][f].t = "num"

\* C24 as stated (short entries dropped): when the Price dataset has the
\* entries vs, getHistoricalData returns exactly one record for each entry
\* with at least 2 elements, and none for a shorter entry.
C24_ShortEntriesDropped ==
    \A c \in DOMAIN callers :
        \A vs \in BarLists \cup OddSeries :
            /\ callers[c].oc.op = "getHistoricalData"
            /\ callers[c].res.st = "fulfilled"
            /\ callers[c].res.data.body = PriceBody(vs)
            => /\ Len(callers[c].out.list)
                    = Cardinality({i \in DOMAIN vs : Len(vs[i].v) >= 2})
               /\ \A i \in DOMAIN callers[c].out.list :
                      \E j \in DOMAIN vs :
                          /\ Len(vs[j].v) >= 2
                          /\ callers[c].out.list[i].date = vs[j].v[1]

\* C25 (cache re-check at dispatch): in the step in which an item is taken
\* from the queue while the cache holds a valid entry for its key, the item's
\* promise is fulfilled with the cached payload and no fetch is started.
C25_RecheckAtDispatch ==
    [][\A i \in Queued :
            /\ i \notin {requestQueue'[x] : x \in DOMAIN requestQueue'}
            /\ CacheValid(St, items[i].key)
            => /\ items'[i].res = Fulfilled(cache[items[i].key].data)
               /\ nnet' = nnet
               /\ netCount'[i] = 0
               /\ \A c \in DOMAIN callers :
                      callers[c].item = i => callers'[c].res = items'[i].res]_vars

\* an item was queued, waited, and was answered at its dispatch from an entry
\* another item's fetch had stored meanwhile
C25_Witness ==
    \E i, j \in DOMAIN items :
        /\ j < i
        /\ items[j].key = items[i].key
        /\ items[j].res.st = "fulfilled" /\ netCount[j] = 1
        /\ dispatchLog # <<>> /\ dispatchLog[Len(dispatchLog)] = i
        /\ netCount[i] = 0
        /\ items[i].res = items[j].res
        /\ \E c \in DOMAIN callers : callers[c].item = i /\ callers[c].res = items[j].res

\* C26 as stated (recovery after failure): a call for a key whose last
\* request has failed, the failure delivered, is not answered with that
\* failure: it is a miss and a new request is queued for it.
C26_RecoveryAfterFailure ==
    [][CallStep =>
        /\ NewCaller.res.st # "rejected"
        /\ (\E i \in DOMAIN items :
                /\ items[i].key = NewCaller.key
                /\ items[i].res.st = "rejected"
                /\ \A j \in DOMAIN items : items[j].key = NewCaller.key => j <= i)
            => /\ NewCaller.how = "enqueue"
               /\ NewCaller.item = Len(items) + 1]_vars

\* the activations of processQueue that have entered the loop and not left it
ActiveLoops == {l \in DOMAIN loops : loops[l].pc # "idle"}

\* C27 (no lost wake-up): in every state a non-empty requestQueue has
\* isProcessingQueue true; isProcessingQueue is true exactly while one
\* activation of processQueue is in its loop, and never more than one is; so
\* an item in the queue always has a running loop that will come to it.
C27_NoLostWakeup ==
    /\ requestQueue # <<>> => isProcessingQueue
    /\ Cardinality(ActiveLoops) <= 1
    /\ isProcessingQueue <=> Cardinality(ActiveLoops) = 1
    /\ \A i \in Queued : items[i].res.st = "pending" /\ ActiveLoops # {}

\* two calls were queued one after the other while the loop was running, the
\* later one during a fetch; both were taken from the queue, in that order
C27_Witness ==
    \E c, d \in DOMAIN callers :
        /\ c < d
        /\ callers[c].how = "enqueue" /\ callInfo[c].busy # "idle"
        /\ callers[d].how = "enqueue" /\ callInfo[d].busy = "fetching"
        /\ callers[d].item = callers[c].item + 1
        /\ Len(dispatchLog) >= 3
        /\ dispatchLog[Len(dispatchLog)] = callers[d].item
        /\ dispatchLog[Len(dispatchLog) - 1] = callers[c].item

\* C28 (liveness): if every fetch completes and timers fire, every request
\* queued is eventually taken from the queue and its promise settled, every
\* caller's promise is eventually settled, and in the end (calls being
\* finitely many) the queue is empty and isProcessingQueue false for good.
C28_Liveness ==
    <>[](/\ \A i \in DOMAIN items :
                /\ items[i].res.st # "pending"
                /\ \E x \in DOMAIN dispatchLog : dispatchLog[x] = i
         /\ \A c \in DOMAIN callers : callers[c].out.st # "pending"
         /\ requestQueue = <<>>
         /\ ~isProcessingQueue)

\* two requests were queued, the second while the first was in flight, and
\* clearCache was called; both are settled, the queue is empty and the loop
\* has left
C28_Witness ==
    /\ Len(items) = 2
    /\ Len(dispatchLog) = 2
    /\ \A i \in 1..2 : items[i].res.st # "pending"
    /\ \A c \in DOMAIN callers : callers[c].out.st = "resolved"
    /\ \E c \in DOMAIN callers : callers[c].item = 2 /\ callInfo[c].busy = "fetching"
    /\ clears = 1
    /\ requestQueue = <<>>
    /\ ~isProcessingQueue
    /\ ActiveLoops = {}

\* C29 (what clearCache leaves alone): a clearCache step leaves requestQueue,
\* isProcessingQueue, lastRequestTime, the running loop and every promise as
\* they were; the items that were queued or in flight at the last clearCache
\* stay queued or in flight until they are settled, are shifted in their
\* queue order, and their callers have their results.
C29_ClearCacheFrame ==
    /\ [][clears' = clears + 1
            => /\ requestQueue' = requestQueue
               /\ isProcessingQueue' = isProcessingQueue
               /\ lastRequestTime' = lastRequestTime
               /\ loops' = loops
               /\ items' = items
               /\ callers' = callers]_vars
    /\ [](\A i \in atClear :
            /\ items[i].res.st = "pending" => i \in Queued \cup InFlight
            /\ \A c \in DOMAIN callers :
                    callers[c].item = i => callers[c].res = items[i].res)
    /\ [](\A x, y \in DOMAIN dispatchLog :
            x < y /\ dispatchLog[x] \in atClear /\ dispatchLog[y] \in atClear
                => dispatchLog[x] < dispatchLog[y])

\* clearCache was called with one item in flight and another in the queue;
\* both were then shifted in their order and their callers have their data
C29_Witness ==
    /\ clears = 1
    /\ atClear = {1, 2}
    /\ dispatchLog = <<1, 2>>
    /\ netCount = <<1, 1>>
    /\ \A i \in atClear : items[i].res.st = "fulfilled"
    /\ \A c \in DOMAIN callers :
            /\ callers[c].how = "enqueue"
            /\ callers[c].res = items[callers[c].item].res
            /\ callers[c].out.list # <<>>

\* C30 as stated (nothing older than the last clearCache is served): every
\* cache entry holds the response of a fetch that started after the last
\* clearCache, and so does every payload a call is answered with from the
\* cache.
C30_CacheNewerThanClear ==
    /\ [](\A k \in DOMAIN cache : cache[k].data.id > netAtClear)
    /\ [][CallStep /\ NewCaller.how = "hit" => NewCaller.res.data.id > netAtClear]_vars
====
